---- MODULE Spec2Model ----
(***************************************************************************)
(* Model of src/app.py (Text Analytics V13, a Streamlit script).            *)
(*                                                                         *)
(*  - NetSpec   : create_network (lines 68-81), the co-occurrence graph     *)
(*                builder, run on a bounded corpus.                        *)
(*  - ColorSpec : the node colouring loop of the comparison tab            *)
(*                (lines 337-347).                                         *)
(*  - Spec      : the session state machine of the script: one action per  *)
(*                complete script run, one per user event (lines 17-20,    *)
(*                121-182).  FairSpec adds the scheduling of script runs.  *)
(***************************************************************************)
EXTENDS Integers, Sequences, FiniteSets, TLC

VARIABLES
    \* ---- create_network (lines 69-81)
    tokens_list,     \* argument: sequence of documents, each a sequence of tokens
    top_n,           \* argument
    min_edge,        \* argument
    pair_list,       \* local: the pairs generated by lines 71-74, in order
    top_pairs,       \* local: c.most_common(top_n), a sequence of <<pair, weight>>
    G,               \* local: the nx.Graph, [nodes |-> set, edges |-> {u,v} -> weight]
    i,               \* position of the loop of line 78 in top_pairs
    pc,              \* "start" | "edges" | "returned" | "raised" | "off"
    \* ---- comparison tab colouring (lines 337-347)
    count_a,         \* Counter(tokens_a): token -> count
    count_b,         \* Counter(tokens_b): token -> count
    graph_nodes,     \* G.nodes(): the nodes in iteration order
    node_colors,     \* the list built by the loop of line 340
    \* ---- session (lines 17-20, 121-182)
    df,              \* st.session_state.df: "None" | "df"
    user_stopwords,  \* st.session_state.user_stopwords: sequence of words
    new_words_input, \* value of the text_input widget: sequence of characters
    reset_clicked,   \* the reset button was clicked since the last run
    reload_clicked,  \* the load-another-file button was clicked since the last run
    uploaded_file,   \* value of the file_uploader widget: "None" | "ok" | "bad"
    pending,         \* a script run is requested (first load, widget event, st.rerun)
    run_id,          \* parity of the number of script runs started
    exit,            \* how the last script run ended
    page             \* what the browser shows: "none" | "upload" | "dashboard"

netVars   == <<tokens_list, top_n, min_edge, pair_list, top_pairs, G, i, pc>>
colorVars == <<count_a, count_b, graph_nodes, node_colors>>
uiVars    == <<df, user_stopwords, new_words_input, reset_clicked, reload_clicked,
               uploaded_file, pending, run_id, exit, page>>
vars      == <<netVars, colorVars, uiVars>>

\* ------------------------------------------------------------------ bounds
MaxDocs    == 2      \* documents in a corpus
MaxCorpus  == 5      \* tokens in a corpus, all documents together
MaxTopN    == 3      \* largest top_n tried
MaxMinEdge == 2      \* largest min_edge tried
Tokens     == {"a", "b"}

\* ------------------------------------------------------------------ helpers
EmptyGraph == [nodes |-> {}, edges |-> <<>>]

SeqsUpTo(S, n) == UNION {[1..k -> S] : k \in 0..n}

RECURSIVE SumSeq(_)
SumSeq(s) == IF s = <<>> THEN 0 ELSE Head(s) + SumSeq(Tail(s))

\* The documents of lengths lens[1], lens[2], ... cut from the tokens of flat.
RECURSIVE Cut(_, _)
Cut(flat, lens) ==
    IF lens = <<>> THEN <<>>
    ELSE <<SubSeq(flat, 1, Head(lens))>>
         \o Cut(SubSeq(flat, Head(lens) + 1, Len(flat)), Tail(lens))

\* Every corpus of at most MaxDocs documents and MaxCorpus tokens in all.
DocLengths == {lens \in SeqsUpTo(0..MaxCorpus, MaxDocs) : SumSeq(lens) <= MaxCorpus}

\* ------------------------------------------------------------------ create_network
\* itertools.combinations(tokens, 2): all <<tokens[j], tokens[k]>> with j < k,
\* in lexicographic order of (j, k).
RECURSIVE combinations2(_)
combinations2(tokens) ==
    IF Len(tokens) < 2 THEN <<>>
    ELSE [k \in 1..(Len(tokens) - 1) |-> <<tokens[1], tokens[k + 1]>>]
         \o combinations2(Tail(tokens))

\* Lines 71-74: pair_list over the whole corpus.
RECURSIVE PairList(_)
PairList(docs) ==
    IF docs = <<>> THEN <<>>
    ELSE (IF Len(Head(docs)) >= 2 THEN combinations2(Head(docs)) ELSE <<>>)
         \o PairList(Tail(docs))

\* Counter(pair_list): a dict, so its keys are kept in first-insertion order.
\* [keys |-> sequence of distinct keys, cnt |-> key -> count]
RECURSIVE CounterFrom(_, _)
CounterFrom(acc, pl) ==
    IF pl = <<>> THEN acc
    ELSE LET p == Head(pl) IN
         IF p \in DOMAIN acc.cnt
         THEN CounterFrom([acc EXCEPT !.cnt[p] = @ + 1], Tail(pl))
         ELSE CounterFrom([keys |-> Append(acc.keys, p),
                           cnt  |-> [q \in DOMAIN acc.cnt \cup {p} |->
                                        IF q = p THEN 1 ELSE acc.cnt[q]]],
                          Tail(pl))

Counter(pl) == CounterFrom([keys |-> <<>>, cnt |-> <<>>], pl)

\* c.items(): <<key, count>> in insertion order.
Items(c) == [k \in 1..Len(c.keys) |-> <<c.keys[k], c.cnt[c.keys[k]]>>]

RemoveAt(s, k) == SubSeq(s, 1, k - 1) \o SubSeq(s, k + 1, Len(s))

\* The element heapq.nlargest / sorted(reverse=True) puts first: among the
\* largest counts, the one met first.
PickMax_last(items) ==
    CHOOSE k \in 1..Len(items) :
        /\ \A j \in 1..Len(items) : items[j][2] <= items[k][2]
        /\ \A j \in (k + 1)..Len(items) : items[j][2] < items[k][2]

PickMax(items) ==
    CHOOSE k \in 1..Len(items) :
        /\ \A j \in 1..Len(items) : items[j][2] <= items[k][2]
        /\ \A j \in 1..(k - 1) : items[j][2] < items[k][2]

RECURSIVE NLargest(_, _)
NLargest(n, items) ==
    IF n <= 0 \/ items = <<>> THEN <<>>
    ELSE LET k == PickMax(items) IN
         <<items[k]>> \o NLargest(n - 1, RemoveAt(items, k))

\* Counter.most_common(n) with n given: heapq.nlargest(n, items, key=count).
most_common_all(c, n) == NLargest(Len(c.keys), Items(c))

most_common(c, n) == NLargest(n, Items(c))

\* Line 79.
KeepEdge_always(weight, min) == TRUE

KeepEdge(weight, min) == weight >= min

\* nx.Graph.add_edge(u, v, weight=w): both ends become nodes; the edge {u, v}
\* is created, or its weight attribute overwritten when it exists already.
add_edge(g, u, v, w) ==
    [nodes |-> g.nodes \cup {u, v},
     edges |-> [e \in DOMAIN g.edges \cup {{u, v}} |->
                   IF e = {u, v} THEN w ELSE g.edges[e]]]

ColorIdle == /\ count_a = <<>> /\ count_b = <<>>
             /\ graph_nodes = <<>> /\ node_colors = <<>>

UiIdle == /\ df = "None" /\ user_stopwords = <<>> /\ new_words_input = <<>>
          /\ reset_clicked = FALSE /\ reload_clicked = FALSE
          /\ uploaded_file = "None" /\ pending = FALSE /\ run_id = 0
          /\ exit = "none" /\ page = "none"

NetIdle == /\ tokens_list = <<>> /\ top_n = 0 /\ min_edge = 0
           /\ pair_list = <<>> /\ top_pairs = <<>> /\ G = EmptyGraph /\ i = 0 /\ pc = "off"

NetInit ==
    /\ \E lens \in DocLengths :
          \E flat \in [1..SumSeq(lens) -> Tokens] : tokens_list = Cut(flat, lens)
    /\ top_n \in (-1)..MaxTopN
    /\ min_edge \in 0..MaxMinEdge
    /\ pair_list = <<>>
    /\ top_pairs = <<>>
    /\ G = EmptyGraph
    /\ i = 0
    /\ pc = "start"
    /\ ColorIdle
    /\ UiIdle

\* Lines 71-77: count the pairs, take the top_n, create the empty graph.
CountPairs ==
    /\ pc = "start"
    /\ pair_list' = PairList(tokens_list)
    /\ top_pairs' = most_common(Counter(PairList(tokens_list)), top_n)
    /\ G' = EmptyGraph
    /\ i' = 1
    /\ pc' = "edges"
    /\ UNCHANGED <<tokens_list, top_n, min_edge, colorVars, uiVars>>

\* Lines 78-80, one iteration whose pair passes the test of line 79.
AddEdge ==
    /\ pc = "edges"
    /\ i <= Len(top_pairs)
    /\ KeepEdge(top_pairs[i][2], min_edge)
    /\ G' = add_edge(G, top_pairs[i][1][1], top_pairs[i][1][2], top_pairs[i][2])
    /\ i' = i + 1
    /\ UNCHANGED <<tokens_list, top_n, min_edge, pair_list, top_pairs, pc, colorVars, uiVars>>

\* Lines 78-79, one iteration whose pair fails the test of line 79.
SkipEdge ==
    /\ pc = "edges"
    /\ i <= Len(top_pairs)
    /\ ~KeepEdge(top_pairs[i][2], min_edge)
    /\ i' = i + 1
    /\ UNCHANGED <<tokens_list, top_n, min_edge, pair_list, top_pairs, G, pc, colorVars, uiVars>>

\* Line 81.
Return ==
    /\ pc = "edges"
    /\ i > Len(top_pairs)
    /\ pc' = "returned"
    /\ UNCHANGED <<tokens_list, top_n, min_edge, pair_list, top_pairs, G, i, colorVars, uiVars>>

NetNext == CountPairs \/ AddEdge \/ SkipEdge \/ Return

NetSpec == NetInit /\ [][NetNext]_vars

\* ------------------------------------------------------------------ properties of create_network
Min2(x, y) == IF x <= y THEN x ELSE y
Max2(x, y) == IF x >= y THEN x ELSE y

\* Position pairs (document d, positions j < k) of the corpus whose two tokens
\* are the two ends of edge e, in either order.
PositionPairs(e) ==
    {t \in (1..Len(tokens_list)) \X (1..MaxCorpus) \X (1..MaxCorpus) :
        /\ t[2] < t[3]
        /\ t[3] <= Len(tokens_list[t[1]])
        /\ {tokens_list[t[1]][t[2]], tokens_list[t[1]][t[3]]} = e}

\* C1: pairs (x, y) and (y, x) are one pair: the weight stored on edge {x, y}
\* of the returned graph is the number of position pairs, over all documents,
\* whose tokens are x and y in either order.
C1_WeightIsUnorderedFrequency ==
    pc = "returned" =>
        \A e \in DOMAIN G.edges : G.edges[e] = Cardinality(PositionPairs(e))

\* C2: the returned graph is simple: no edge joins a token to itself.
C2_NoSelfLoop ==
    pc = "returned" => \A e \in DOMAIN G.edges : Cardinality(e) = 2

\* C3: a call with top_n <= 0 or min_weight <= 0 is rejected before any
\* computation: it never gets past its start except by raising, and returns
\* no graph.
C3_NonPositiveRejected ==
    (top_n <= 0 \/ min_edge <= 0) => pc \in {"start", "raised"}

\* C4: for top_n >= 1 and min_weight >= 1 the graph never has more than top_n
\* edges.
C4_EdgeCountAtMostTopN ==
    (top_n >= 1 /\ min_edge >= 1) => Cardinality(DOMAIN G.edges) <= top_n

\* C4 witness: a returned graph with exactly top_n edges, cut from a corpus
\* with more than top_n distinct pairs.
C4_Witness ==
    /\ pc = "returned"
    /\ top_n >= 1
    /\ min_edge >= 1
    /\ Cardinality(DOMAIN G.edges) = top_n
    /\ Cardinality({pair_list[k] : k \in 1..Len(pair_list)}) > top_n

\* C5: every edge of the graph carries a weight >= min_weight, at every point
\* of construction, also when the same two tokens are added twice.
C5_WeightAtLeastMin ==
    \A e \in DOMAIN G.edges : G.edges[e] >= min_edge

\* C5 witness: a returned graph whose edge {x, y} was added twice, once for
\* (x, y) and once for (y, x), under a min_weight that also dropped a pair.
C5_Witness ==
    /\ pc = "returned"
    /\ min_edge >= 2
    /\ \E j, k \in 1..Len(top_pairs) :
          /\ j < k
          /\ top_pairs[j][1][1] # top_pairs[j][1][2]
          /\ top_pairs[k][1] = <<top_pairs[j][1][2], top_pairs[j][1][1]>>
          /\ top_pairs[j][2] >= min_edge
          /\ top_pairs[k][2] >= min_edge
    /\ \E j \in 1..Len(top_pairs) : top_pairs[j][2] < min_edge

\* Frequency and first generation of a pair, read off the generated pair list.
Freq(p) == Cardinality({k \in 1..Len(pair_list) : pair_list[k] = p})
First(p) ==
    CHOOSE k \in 1..Len(pair_list) :
        /\ pair_list[k] = p
        /\ \A j \in 1..(k - 1) : pair_list[j] # p
GeneratedPairs == {pair_list[k] : k \in 1..Len(pair_list)}
RanksBefore(p, q) ==
    \/ Freq(p) > Freq(q)
    \/ Freq(p) = Freq(q) /\ First(p) < First(q)
Selected == {top_pairs[k][1] : k \in 1..Len(top_pairs)}

MaxCount    == 8      \* largest count in a frequency table
ColorTokens == {"w", "v"}

EpsTenths  == 1       \* 0.1 of line 343, in tenths
HighTenths == 6       \* 0.6 of line 345, in tenths
LowTenths  == 4       \* 0.4 of line 346, in tenths

Blue == "#66b3ff"
Red  == "#ff9999"
Grey == "#dddddd"

\* Counter.get(node, 0): a Counter holds only the tokens that occur.
get(counter, node) == IF node \in DOMAIN counter THEN counter[node] ELSE 0

\* Lines 343-344 in exact arithmetic: total = fa + fb + 0.1 is Total10/10 and
\* ratio = fa / total is (10 * fa) / Total10.  No integer counts put the ratio
\* on a threshold, so the floating-point comparison agrees with the exact one.
Total10(fa, fb) == 10 * fa + 10 * fb + EpsTenths

\* ratio > t/10 and ratio < t/10, cross-multiplied (Total10 > 0).
RatioGT(fa, fb, t) == 10 * (10 * fa) > t * Total10(fa, fb)
RatioLT(fa, fb, t) == 10 * (10 * fa) < t * Total10(fa, fb)

\* Lines 345-347.
NodeColor_swapped(fa, fb) ==
    IF RatioGT(fa, fb, HighTenths) THEN Red
    ELSE IF RatioLT(fa, fb, LowTenths) THEN Blue
    ELSE Grey

NodeColor(fa, fb) ==
    IF RatioGT(fa, fb, HighTenths) THEN Blue
    ELSE IF RatioLT(fa, fb, LowTenths) THEN Red
    ELSE Grey

\* Sequences of distinct elements of S.
DistinctSeqs(S) ==
    {s \in SeqsUpTo(S, Cardinality(S)) : \A j, k \in 1..Len(s) : j # k => s[j] # s[k]}

\* Frequency tables: each token is absent or has a positive count.
CountTables == UNION {[D -> 1..MaxCount] : D \in SUBSET ColorTokens}

\* A node of G is a token of a row of group A or of group B (lines 328-334), and
\* count_a, count_b count the tokens of the same rows (lines 297-304, 337-338).
ColorInit ==
    /\ count_a \in CountTables
    /\ count_b \in CountTables
    /\ graph_nodes \in DistinctSeqs(ColorTokens)
    /\ \A k \in 1..Len(graph_nodes) :
           get(count_a, graph_nodes[k]) + get(count_b, graph_nodes[k]) >= 1
    /\ node_colors = <<>>
    /\ pc = "color_start"
    /\ tokens_list = <<>> /\ top_n = 0 /\ min_edge = 0
    /\ pair_list = <<>> /\ top_pairs = <<>> /\ G = EmptyGraph /\ i = 0
    /\ UiIdle

\* Line 336, true branch; lines 337-339.
ColorBegin ==
    /\ pc = "color_start"
    /\ Len(graph_nodes) > 0
    /\ node_colors' = <<>>
    /\ pc' = "coloring"
    /\ UNCHANGED <<tokens_list, top_n, min_edge, pair_list, top_pairs, G, i,
                   count_a, count_b, graph_nodes, uiVars>>

\* Lines 356-357.
ColorNoData ==
    /\ pc = "color_start"
    /\ Len(graph_nodes) = 0
    /\ pc' = "nodata"
    /\ UNCHANGED <<tokens_list, top_n, min_edge, pair_list, top_pairs, G, i, colorVars, uiVars>>

\* Lines 340-347, one iteration.
ColorNode ==
    /\ pc = "coloring"
    /\ Len(node_colors) < Len(graph_nodes)
    /\ LET node == graph_nodes[Len(node_colors) + 1]
           fa   == get(count_a, node)
           fb   == get(count_b, node)
       IN  node_colors' = Append(node_colors, NodeColor(fa, fb))
    /\ UNCHANGED <<tokens_list, top_n, min_edge, pair_list, top_pairs, G, i, pc,
                   count_a, count_b, graph_nodes, uiVars>>

\* The loop of line 340 is over; lines 349-355 draw with node_colors.
ColorDraw ==
    /\ pc = "coloring"
    /\ Len(node_colors) = Len(graph_nodes)
    /\ pc' = "colored"
    /\ UNCHANGED <<tokens_list, top_n, min_edge, pair_list, top_pairs, G, i, colorVars, uiVars>>

ColorNext == ColorBegin \/ ColorNoData \/ ColorNode \/ ColorDraw

ColorSpec == ColorInit /\ [][ColorNext]_vars

\* ------------------------------------------------------------------ properties of the colouring
\* ratio = fa / (fa + fb + 0.1) against a threshold of h hundredths, with the
\* fraction cleared: ratio > h/100 iff (100 - h) * 10 * fa > h * (10 * fb + 1).
AboveHundredths(fa, fb, h) == (100 - h) * 10 * fa > h * (10 * fb + 1)
BelowHundredths(fa, fb, h) == (100 - h) * 10 * fa < h * (10 * fb + 1)

\* C7: every node gets exactly one label, decided by the two frequency tables
\* alone: A (blue) if ratio > high, B (red) if ratio < low, common (grey)
\* otherwise, with high = 0.6, low = 0.4 and epsilon = 0.1; counts 8 and 2 give
\* A (also under high = 0.7) and counts 4 and 4 give common.
C7_LabelByRatio ==
    /\ pc = "colored" => Len(node_colors) = Len(graph_nodes)
    /\ pc \in {"coloring", "colored"} =>
          \A k \in 1..Len(node_colors) :
              LET fa == get(count_a, graph_nodes[k])
                  fb == get(count_b, graph_nodes[k])
              IN  /\ node_colors[k] \in {Blue, Red, Grey}
                  /\ node_colors[k] = Blue <=> AboveHundredths(fa, fb, 60)
                  /\ node_colors[k] = Red  <=> BelowHundredths(fa, fb, 40)
                  /\ node_colors[k] = Grey <=>
                        (~AboveHundredths(fa, fb, 60) /\ ~BelowHundredths(fa, fb, 40))
                  /\ (fa = 8 /\ fb = 2) =>
                        (node_colors[k] = Blue /\ AboveHundredths(fa, fb, 70))
                  /\ (fa = 4 /\ fb = 4) =>
                        (node_colors[k] = Grey /\ ~AboveHundredths(fa, fb, 70)
                                               /\ ~BelowHundredths(fa, fb, 30))

\* C7 witness: a drawn graph with a node of counts (8, 2) and one of (4, 4).
C7_Witness ==
    /\ pc = "colored"
    /\ \E j, k \in 1..Len(graph_nodes) :
          /\ get(count_a, graph_nodes[j]) = 8 /\ get(count_b, graph_nodes[j]) = 2
          /\ get(count_a, graph_nodes[k]) = 4 /\ get(count_b, graph_nodes[k]) = 4
          /\ node_colors[j] = Blue
          /\ node_colors[k] = Grey

Mirror(color) == IF color = Blue THEN Red ELSE IF color = Red THEN Blue ELSE Grey

\* C10: the colouring is symmetric in the two groups: two nodes whose counts
\* are each other's exchanged carry mirrored colours (A <-> B, common fixed),
\* and a node with fa = fb is common.
C10_SymmetricInGroups ==
    pc = "colored" =>
        \A j, k \in 1..Len(graph_nodes) :
            (/\ get(count_a, graph_nodes[j]) = get(count_b, graph_nodes[k])
             /\ get(count_b, graph_nodes[j]) = get(count_a, graph_nodes[k]))
            => node_colors[k] = Mirror(node_colors[j])


\* ------------------------------------------------------------------ session state machine
MaxInputLen == 3      \* characters typed into the text input

\* The characters a user types: a letter, a space, a full-width space.
Letter         == "x"
Space          == " "
FullWidthSpace == "U+3000"
Chars          == {Letter, Space, FullWidthSpace}
Inputs         == SeqsUpTo(Chars, MaxInputLen)

\* str.replace(old, new) for one-character old and new.
replace(text, old, new) ==
    [k \in 1..Len(text) |-> IF text[k] = old THEN new ELSE text[k]]

\* str.split() without arguments: the maximal runs of non-whitespace
\* characters, in order; a full-width space is whitespace to it as well.
IsSpace(ch) == ch \in {Space, FullWidthSpace}

RECURSIVE SplitFrom(_, _, _)
SplitFrom(text, word, acc) ==
    IF text = <<>> THEN (IF word = <<>> THEN acc ELSE Append(acc, word))
    ELSE IF IsSpace(Head(text))
         THEN SplitFrom(Tail(text), <<>>, IF word = <<>> THEN acc ELSE Append(acc, word))
         ELSE SplitFrom(Tail(text), Append(word, Head(text)), acc)

split(text) == SplitFrom(text, <<>>, <<>>)

Contains(list, w) == \E k \in 1..Len(list) : list[k] = w

\* Lines 152-154.
RECURSIVE AddWords_unchecked(_, _)
AddWords_unchecked(list, words) ==
    IF words = <<>> THEN list
    ELSE AddWords_unchecked(Append(list, Head(words)), Tail(words))

RECURSIVE AddWords(_, _)
AddWords(list, words) ==
    IF words = <<>> THEN list
    ELSE AddWords(IF Contains(list, Head(words)) THEN list ELSE Append(list, Head(words)),
                  Tail(words))

\* Lines 17-20 have run once the first script run starts; the session begins
\* with that run requested.
Init ==
    /\ df = "None"
    /\ user_stopwords = <<>>
    /\ new_words_input = <<>>
    /\ reset_clicked = FALSE
    /\ reload_clicked = FALSE
    /\ uploaded_file = "None"
    /\ pending = TRUE
    /\ run_id = 0
    /\ exit = "none"
    /\ page = "none"
    /\ NetIdle
    /\ ColorIdle

\* What every script run does to the widgets: a button is True for the one run
\* its click requested.
RunStarts ==
    /\ pending
    /\ run_id' = 1 - run_id
    /\ reset_clicked' = FALSE
    /\ reload_clicked' = FALSE

\* Lines 121-126 with no file in the uploader: the run ends at the end of the script.
RunUploadWait ==
    /\ RunStarts
    /\ df = "None"
    /\ uploaded_file = "None"
    /\ page' = "upload"
    /\ pending' = FALSE
    /\ exit' = "upload_wait"
    /\ UNCHANGED <<df, user_stopwords, new_words_input, uploaded_file, netVars, colorVars>>

\* Lines 126-133: the file is read, df is set, st.rerun().
RunUploadOk ==
    /\ RunStarts
    /\ df = "None"
    /\ uploaded_file = "ok"
    /\ df' = "df"
    /\ page' = "upload"
    /\ pending' = TRUE
    /\ exit' = "upload_rerun"
    /\ UNCHANGED <<user_stopwords, new_words_input, uploaded_file, netVars, colorVars>>

\* Lines 126-135: reading the file raises; st.error, the run ends.
RunUploadError ==
    /\ RunStarts
    /\ df = "None"
    /\ uploaded_file = "bad"
    /\ page' = "upload"
    /\ pending' = FALSE
    /\ exit' = "upload_error"
    /\ UNCHANGED <<df, user_stopwords, new_words_input, uploaded_file, netVars, colorVars>>

\* Lines 139-155: the text input holds a non-empty value; its words are added
\* and st.rerun() ends the run.
RunAddWords ==
    /\ RunStarts
    /\ df # "None"
    /\ new_words_input # <<>>
    /\ user_stopwords' =
           AddWords(user_stopwords, split(replace(new_words_input, FullWidthSpace, Space)))
    /\ page' = "dashboard"
    /\ pending' = TRUE
    /\ exit' = "add_rerun"
    /\ UNCHANGED <<df, new_words_input, uploaded_file, netVars, colorVars>>

\* Lines 139-162: empty input, the reset button was clicked; st.rerun().
RunReset ==
    /\ RunStarts
    /\ df # "None"
    /\ new_words_input = <<>>
    /\ reset_clicked
    /\ user_stopwords' = <<>>
    /\ page' = "dashboard"
    /\ pending' = TRUE
    /\ exit' = "reset_rerun"
    /\ UNCHANGED <<df, new_words_input, uploaded_file, netVars, colorVars>>

\* Lines 139-182: empty input, no reset, the load-another-file button was
\* clicked; st.rerun().
RunReload ==
    /\ RunStarts
    /\ df # "None"
    /\ new_words_input = <<>>
    /\ ~reset_clicked
    /\ reload_clicked
    /\ df' = "None"
    /\ user_stopwords' = <<>>
    /\ page' = "dashboard"
    /\ pending' = TRUE
    /\ exit' = "reload_rerun"
    /\ UNCHANGED <<new_words_input, uploaded_file, netVars, colorVars>>

\* Lines 139-390 with no branch that reruns: the dashboard is rendered and the
\* run ends at the end of the script.  The uploader was not part of this run,
\* so its value is dropped.
RunDashboard ==
    /\ RunStarts
    /\ df # "None"
    /\ new_words_input = <<>>
    /\ ~reset_clicked
    /\ ~reload_clicked
    /\ uploaded_file' = "None"
    /\ page' = "dashboard"
    /\ pending' = FALSE
    /\ exit' = "complete"
    /\ UNCHANGED <<df, user_stopwords, new_words_input, netVars, colorVars>>

ScriptRun ==
    \/ RunUploadWait
    \/ RunUploadOk
    \/ RunUploadError
    \/ RunAddWords
    \/ RunReset
    \/ RunReload
    \/ RunDashboard

\* The user puts a file into the uploader of line 124.
UploadFile ==
    /\ page = "upload"
    /\ df = "None"
    /\ \E f \in {"ok", "bad"} : uploaded_file' = f
    /\ pending' = TRUE
    /\ UNCHANGED <<df, user_stopwords, new_words_input, reset_clicked, reload_clicked,
                   run_id, exit, page, netVars, colorVars>>

\* The user changes the value of the text input of line 148.
EnterWords ==
    /\ page = "dashboard"
    /\ df # "None"
    /\ \E text \in Inputs : text # new_words_input /\ new_words_input' = text
    /\ pending' = TRUE
    /\ UNCHANGED <<df, user_stopwords, reset_clicked, reload_clicked, uploaded_file,
                   run_id, exit, page, netVars, colorVars>>

\* The user clicks the button of line 160.
ClickReset ==
    /\ page = "dashboard"
    /\ df # "None"
    /\ reset_clicked' = TRUE
    /\ pending' = TRUE
    /\ UNCHANGED <<df, user_stopwords, new_words_input, reload_clicked, uploaded_file,
                   run_id, exit, page, netVars, colorVars>>

\* The user clicks the button of line 179.
ClickReload ==
    /\ page = "dashboard"
    /\ df # "None"
    /\ reload_clicked' = TRUE
    /\ pending' = TRUE
    /\ UNCHANGED <<df, user_stopwords, new_words_input, reset_clicked, uploaded_file,
                   run_id, exit, page, netVars, colorVars>>

Next ==
    \/ RunUploadWait
    \/ RunUploadOk
    \/ RunUploadError
    \/ RunAddWords
    \/ RunReset
    \/ RunReload
    \/ RunDashboard
    \/ UploadFile
    \/ EnterWords
    \/ ClickReset
    \/ ClickReload

Spec == Init /\ [][Next]_vars

\* Streamlit executes every script run that is requested.
FairSpec == Init /\ [][Next]_vars /\ WF_vars(ScriptRun)

\* ------------------------------------------------------------------ properties of the session
\* C8: once the text input holds a non-empty value, a script run eventually
\* completes with the dashboard rendered.
C8_NonEmptyInputLeadsToRender ==
    (new_words_input # <<>>) ~> (~pending /\ exit = "complete")

\* C9: user_stopwords never holds a word twice; it is empty right after a
\* reset and right after "load another file", which also sets df to None.
C9_StopwordsDistinctAndCleared ==
    /\ \A j, k \in 1..Len(user_stopwords) :
          j # k => user_stopwords[j] # user_stopwords[k]
    /\ exit = "reset_rerun" => user_stopwords = <<>>
    /\ exit = "reload_rerun" => (user_stopwords = <<>> /\ df = "None")

\* C9 witness: words were added in more than one run, the last time from an
\* input that repeats a word.
C9_Witness ==
    /\ exit = "add_rerun"
    /\ Len(user_stopwords) >= 2
    /\ \E j, k \in 1..Len(split(new_words_input)) :
          j # k /\ split(new_words_input)[j] = split(new_words_input)[k]

====
